---- MODULE Spec2Model ----
(***************************************************************************)
(* The Recorder component of Presense (src/unnamed/part_000, lines         *)
(* 413-955): the recording session orchestrator.  The React state, the     *)
(* refs and the browser objects the component drives (capture streams,     *)
(* MediaRecorder instances, intervals, promises in flight) are the state;  *)
(* every user action, browser event and promise continuation is one step.  *)
(*                                                                         *)
(* Each handler is written as an operator from the state before the call   *)
(* to the state after it (the record State), so that a handler that calls  *)
(* another one (handleBack -> stopRecording, the effect cleanup ->         *)
(* cleanup) is the composition of the two, in the order of the code.       *)
(* A state update that changes currentView re-runs the media effect        *)
(* (its cleanup, then its body) in the same step: React flushes the        *)
(* effects of a render before it handles the next event.                   *)
(***************************************************************************)
EXTENDS Integers, Sequences, FiniteSets, Bags, TLC

VARIABLES
    mounted,               \* the Recorder component is mounted (App.showRecorder)
    currentView,           \* useState('recorder')
    isRecording,           \* useState(false)
    elapsed,               \* useState(0)
    error,                 \* useState(null)
    isInitializing,        \* useState(true)
    recordingBlob,         \* useState(null)
    analysisData,          \* useState(null)
    streamRef,             \* streamRef.current: a stream id, 0 for null
    videoSrc,              \* videoRef.current.srcObject: a stream id, 0 for none
    mediaRecorderRef,      \* mediaRecorderRef.current: a recorder id, 0 for null
    timerRef,              \* timerRef.current: an interval id, 0 for null
    chunksRef,             \* chunksRef.current.length: the chunks pushed
    modelRef,              \* modelRef.current is loaded
    eyeContactFramesRef,   \* eyeContactFramesRef.current
    totalFramesRef,        \* totalFramesRef.current
    predictionIntervalRef, \* predictionIntervalRef.current: an interval id, 0 for null
    effectView,            \* currentView in the closure of the registered effect cleanup
    effectAcq,             \* the acquisition whose isMounted flag that closure owns
    liveStreams,           \* acquired streams whose tracks are not stopped
    endedStreams,          \* acquired streams whose tracks are stopped
    nAcq,                  \* the initializeMedia calls made; call i acquires stream i
    acq,                   \* the initializeMedia calls in flight, by call number
    rec,                   \* the MediaRecorder instances, in order of creation: each is
                           \* "recording", "stopping" (inactive, the task that fires
                           \* its last events is queued) or "inactive"
    liveTimers,            \* duration intervals not cleared
    liveSamplers,          \* prediction intervals not cleared
    pendingPred,           \* predict() calls awaiting their result
    reqs,                  \* analyzeVideo calls in flight: the bag of the blobs given
    supported,             \* isGetUserMediaSupported()
    tmImage                \* window.tmImage is defined

vars == <<mounted, currentView, isRecording, elapsed, error, isInitializing,
          recordingBlob, analysisData, streamRef, videoSrc, mediaRecorderRef,
          timerRef, chunksRef, modelRef, eyeContactFramesRef, totalFramesRef,
          predictionIntervalRef, effectView, effectAcq, liveStreams, endedStreams, nAcq, acq,
          rec, liveTimers, liveSamplers, pendingPred, reqs, supported, tmImage>>

----------------------------------------------------------------------------
(* Bounds of the model. *)

\* MediaRecorder instances created in a run (startRecording calls that reach
\* the constructor); it bounds the initializeMedia and analyzeVideo calls too
MaxRecorders == 2
\* predictions counted or awaited in one recording
MaxFrames == 1
\* duration ticks counted in one recording
MaxElapsed == 1
\* predictions counted in the recording of ScoreSpec
MaxScoreFrames == 40

----------------------------------------------------------------------------
(* Values. *)

NoError == "null"
ErrUnsupported == "getUserMedia is not supported in this browser"
ErrMedia == "Failed to access camera and microphone"
ErrNoStream == "No media stream available"
ErrRecording == "Recording failed"
ErrStart == "Failed to start recording"
ErrAnalysis == "Analysis failed. Please try again."

\* null, for recordingBlob; a Blob is the recorder whose stop event built it
\* (the identity of the object) and the number of chunks it was built from,
\* with the eyeContactScore that was stored in the step that built it
NullBlob == [by |-> 0, chunks |-> 0, score |-> 0]

\* null, for analysisData; an object is a function from field names to values
NullData == [null |-> 0]
EmptyObject == [k \in {} |-> 0]
Undefined == -1

\* the payloads analyzeVideo resolves with: one without and one with a field
\* named eyeContactScore
Payloads ==
    { [confidenceScore |-> 82],
      [confidenceScore |-> 55, eyeContactScore |-> 5] }

State ==
    [ mounted |-> mounted, currentView |-> currentView, isRecording |-> isRecording,
      elapsed |-> elapsed, error |-> error, isInitializing |-> isInitializing,
      recordingBlob |-> recordingBlob, analysisData |-> analysisData,
      streamRef |-> streamRef, videoSrc |-> videoSrc,
      mediaRecorderRef |-> mediaRecorderRef, timerRef |-> timerRef,
      chunksRef |-> chunksRef, modelRef |-> modelRef,
      eyeContactFramesRef |-> eyeContactFramesRef, totalFramesRef |-> totalFramesRef,
      predictionIntervalRef |-> predictionIntervalRef, effectView |-> effectView,
      effectAcq |-> effectAcq, liveStreams |-> liveStreams,
      endedStreams |-> endedStreams, nAcq |-> nAcq, acq |-> acq, rec |-> rec,
      liveTimers |-> liveTimers, liveSamplers |-> liveSamplers,
      pendingPred |-> pendingPred, reqs |-> reqs, supported |-> supported,
      tmImage |-> tmImage ]

Apply(s) ==
    /\ mounted' = s.mounted
    /\ currentView' = s.currentView
    /\ isRecording' = s.isRecording
    /\ elapsed' = s.elapsed
    /\ error' = s.error
    /\ isInitializing' = s.isInitializing
    /\ recordingBlob' = s.recordingBlob
    /\ analysisData' = s.analysisData
    /\ streamRef' = s.streamRef
    /\ videoSrc' = s.videoSrc
    /\ mediaRecorderRef' = s.mediaRecorderRef
    /\ timerRef' = s.timerRef
    /\ chunksRef' = s.chunksRef
    /\ modelRef' = s.modelRef
    /\ eyeContactFramesRef' = s.eyeContactFramesRef
    /\ totalFramesRef' = s.totalFramesRef
    /\ predictionIntervalRef' = s.predictionIntervalRef
    /\ effectView' = s.effectView
    /\ effectAcq' = s.effectAcq
    /\ liveStreams' = s.liveStreams
    /\ endedStreams' = s.endedStreams
    /\ nAcq' = s.nAcq
    /\ acq' = s.acq
    /\ rec' = s.rec
    /\ liveTimers' = s.liveTimers
    /\ liveSamplers' = s.liveSamplers
    /\ pendingPred' = s.pendingPred
    /\ reqs' = s.reqs
    /\ supported' = s.supported
    /\ tmImage' = s.tmImage

\* A state setter called after the component is unmounted changes nothing:
\* the React state of t is that of s when s is unmounted.
SetState(s, t) ==
    IF s.mounted THEN t
    ELSE [t EXCEPT !.currentView = s.currentView, !.isRecording = s.isRecording,
                   !.elapsed = s.elapsed, !.error = s.error,
                   !.isInitializing = s.isInitializing,
                   !.recordingBlob = s.recordingBlob,
                   !.analysisData = s.analysisData]

----------------------------------------------------------------------------
(* cleanup, lines 444-461. *)

\* a variant without the test of the recorder's state: stop() queues the
\* task for an inactive recorder too
StopRecordersAny(rs, which) ==
    [r \in DOMAIN rs |-> IF r \in which THEN "stopping" ELSE rs[r]]

\* recorder.stop(): the recorder goes inactive and a task that fires its
\* dataavailable and stop events is queued
StopRecorders(rs, which) ==
    [r \in DOMAIN rs |->
        IF r \in which /\ rs[r] = "recording"
        THEN "stopping" ELSE rs[r]]

\* stream.getTracks().forEach(track => track.stop())
StopTracks(s, stream) ==
    IF stream \in s.liveStreams
    THEN [s EXCEPT !.liveStreams = @ \ {stream}, !.endedStreams = @ \cup {stream}]
    ELSE s

cleanup(s) ==
    LET s1 == IF s.streamRef # 0
              THEN [StopTracks(s, s.streamRef) EXCEPT !.streamRef = 0]
              ELSE s
        s2 == IF s1.timerRef # 0
              THEN [s1 EXCEPT !.liveTimers = @ \ {s1.timerRef}, !.timerRef = 0]
              ELSE s1
    IN  IF s2.mediaRecorderRef # 0
        THEN [s2 EXCEPT !.rec = StopRecorders(@, {s2.mediaRecorderRef})]
        ELSE s2

----------------------------------------------------------------------------
(* The media effect, lines 560-615. *)

\* loadEyeContactModel up to its await (lines 466-485): it returns at once
\* when the model is loaded or the library is missing
LoadStarts(s) == ~s.modelRef /\ s.tmImage

Put(f, k, v) == [j \in DOMAIN f \cup {k} |-> IF j = k THEN v ELSE f[j]]
Drop(f, k) == [j \in DOMAIN f \ {k} |-> f[j]]

\* the body of the effect, up to the await of initializeMedia
effectRun(s) ==
    IF s.currentView # "recorder" THEN [s EXCEPT !.effectView = "none", !.effectAcq = 0]
    ELSE IF ~s.supported
    THEN [s EXCEPT !.error = ErrUnsupported, !.isInitializing = FALSE,
                   !.effectView = s.currentView, !.effectAcq = 0]
    ELSE [s EXCEPT !.error = NoError, !.isInitializing = TRUE,
                   !.nAcq = @ + 1,
                   !.acq = Put(@, s.nAcq + 1,
                               [isMounted |-> TRUE, gum |-> "pending",
                                load |-> IF LoadStarts(s) THEN "pending" ELSE "done"]),
                   !.effectView = s.currentView, !.effectAcq = s.nAcq + 1]

\* the condition of the effect cleanup, line 611, on the closure's currentView
cleanupGuard(closureView) == closureView # "recorder"

\* the function the effect returns, lines 609-614
effectCleanup(s) ==
    IF s.effectView = "none" THEN s
    ELSE LET s1 == IF s.effectAcq \in DOMAIN s.acq
                   THEN [s EXCEPT !.acq[s.effectAcq].isMounted = FALSE]
                   ELSE s
             s2 == IF cleanupGuard(s1.effectView) THEN cleanup(s1) ELSE s1
         IN  [s2 EXCEPT !.effectView = "none", !.effectAcq = 0]

\* the render after a handler: when currentView changed, the video element
\* of the recorder view is replaced and the effect runs again
Render(old, new) ==
    IF new.mounted /\ new.currentView # old.currentView
    THEN effectRun(effectCleanup([new EXCEPT !.videoSrc = 0]))
    ELSE new

----------------------------------------------------------------------------
(* initializeMedia after its await, lines 582-603. *)

\* a variant of the test that takes every call for a mounted one
stillMountedAlways(a) == TRUE

\* the isMounted test of line 583
stillMounted(a) == a.isMounted

\* the continuation of initializeMedia for call i, whose stream is stream i:
\* Promise.all of line 577 resolved (gumOk) or rejected
initializeMediaResume(s, i, gumOk) ==
    LET a == s.acq[i] IN
    IF gumOk
    THEN IF ~stillMounted(a)
         THEN StopTracks(s, i)
         ELSE SetState(s,
                [s EXCEPT !.streamRef = i,
                          !.videoSrc = IF s.mounted /\ s.currentView = "recorder"
                                       THEN i ELSE @,
                          !.isInitializing = FALSE])
    ELSE IF a.isMounted
         THEN SetState(s, [s EXCEPT !.error = ErrMedia, !.isInitializing = FALSE])
         ELSE s

\* getUserMedia of call i resolves: the browser hands out stream i, its
\* tracks live. Promise.all resolves with it when loadEyeContactModel is done,
\* and the continuation runs at once (a microtask); the call is then over.
getUserMediaResolved(s, i) ==
    LET s1 == [s EXCEPT !.liveStreams = @ \cup {i}] IN
    IF s.acq[i].load = "done"
    THEN [initializeMediaResume(s1, i, TRUE) EXCEPT !.acq = Drop(@, i)]
    ELSE [s1 EXCEPT !.acq[i].gum = "ok"]

\* getUserMedia of call i rejects: Promise.all rejects at once, whatever
\* loadEyeContactModel does later
getUserMediaRejected(s, i) ==
    LET s1 == initializeMediaResume(s, i, FALSE) IN
    IF s.acq[i].load = "done"
    THEN [s1 EXCEPT !.acq = Drop(@, i)]
    ELSE [s1 EXCEPT !.acq[i].gum = "over"]

\* tmImage.load of call i settles, lines 485-490
modelLoadSettled(s, i, ok) ==
    LET s1 == [s EXCEPT !.modelRef = IF ok THEN TRUE ELSE @] IN
    IF s.acq[i].gum = "pending" THEN [s1 EXCEPT !.acq[i].load = "done"]
    ELSE IF s.acq[i].gum = "ok"
    THEN [initializeMediaResume(s1, i, TRUE) EXCEPT !.acq = Drop(@, i)]
    ELSE [s1 EXCEPT !.acq = Drop(@, i)]

----------------------------------------------------------------------------
(* The inference sampler, lines 496-552. *)

\* a variant of startEyeContactDetection without the test of the model
startEyeContactDetectionUnguarded(s, id) ==
    [s EXCEPT !.eyeContactFramesRef = 0, !.totalFramesRef = 0,
              !.predictionIntervalRef = id,
              !.liveSamplers = @ \cup {id}]

startEyeContactDetection(s, id) ==
    IF ~s.modelRef THEN s
    ELSE IF ~(s.mounted /\ s.currentView = "recorder") THEN s   \* videoRef.current is null
    ELSE [s EXCEPT !.eyeContactFramesRef = 0, !.totalFramesRef = 0,
                   !.predictionIntervalRef = id,
                   !.liveSamplers = @ \cup {id}]

stopEyeContactDetection(s) ==
    IF s.predictionIntervalRef # 0
    THEN [s EXCEPT !.liveSamplers = @ \ {s.predictionIntervalRef},
                   !.predictionIntervalRef = 0]
    ELSE s

\* a variant of the callback that counts a positive frame in
\* eyeContactFramesRef only
predictionDoneEyeOnly(s, outcome) ==
    LET s1 == [s EXCEPT !.pendingPred = @ - 1] IN
    IF outcome \in {"empty", "failed"} THEN s1
    ELSE IF outcome = "positive" THEN [s1 EXCEPT !.eyeContactFramesRef = @ + 1]
    ELSE [s1 EXCEPT !.totalFramesRef = @ + 1]

\* a variant of the callback that counts a failed classification as a frame
predictionDoneCountsFailures(s, outcome) ==
    [s EXCEPT !.pendingPred = @ - 1,
              !.totalFramesRef = IF outcome = "empty" THEN @ ELSE @ + 1,
              !.eyeContactFramesRef = IF outcome = "positive" THEN @ + 1 ELSE @]

\* the interval callback after its await, lines 517-540; the outcomes of
\* predict(): index-0 probability >= 0.5, below 0.5, no predictions, rejection
PredictOutcomes == {"positive", "negative", "empty", "failed"}

predictionDone(s, outcome) ==
    LET s1 == [s EXCEPT !.pendingPred = @ - 1] IN
    IF outcome \in {"empty", "failed"} THEN s1
    ELSE [s1 EXCEPT !.totalFramesRef = @ + 1,
                    !.eyeContactFramesRef = IF outcome = "positive" THEN @ + 1 ELSE @]

----------------------------------------------------------------------------
(* The recording pipeline, lines 623-718. *)

\* Math.round((frames / total) * 100), line 631, in IEEE doubles. The
\* quotient is rounded before it is multiplied: for frames / total = 23 / 40
\* the product is 57.49999999999999, below the tie 57.5 of the exact value,
\* and Math.round gives 57. For every other ratio with total < 200 the
\* double rounds as the exact value does (ties go up).
Round100(frames, total) ==
    IF 40 * frames = 23 * total THEN 57
    ELSE (200 * frames + total) \div (2 * total)

eyeContactScoreOf(s) ==
    IF s.totalFramesRef > 0
    THEN Round100(s.eyeContactFramesRef, s.totalFramesRef) ELSE 0

\* { ...obj, [field]: value }
Spread(obj, field, value) ==
    [k \in DOMAIN obj \cup {field} |-> IF k = field THEN value ELSE obj[k]]

\* prev || {}
OrEmpty(obj) == IF obj = NullData THEN EmptyObject ELSE obj

\* a variant of the guard that lets an empty chunk list through
noChunksNever(s) == FALSE

\* the guard of line 624
noChunks(s) == s.chunksRef = 0

\* handleRecordingComplete, called by the stop event of recorder r
handleRecordingComplete(s, r) ==
    IF noChunks(s) THEN s
    ELSE IF ~s.mounted THEN s
    ELSE LET t == [s EXCEPT
                     !.recordingBlob = [by |-> r, chunks |-> s.chunksRef,
                                        score |-> eyeContactScoreOf(s)],
                     !.analysisData = Spread(OrEmpty(@), "eyeContactScore",
                                             eyeContactScoreOf(s)),
                     !.currentView = "review"]
         IN  Render(s, t)

\* what new MediaRecorder() and recorder.start() do: both succeed, the
\* constructor throws, or start() throws
StartOutcomes == {"ok", "ctorThrows", "startThrows"}

startRecording(s, outcome) ==
    IF s.streamRef = 0 THEN [s EXCEPT !.error = ErrNoStream]
    ELSE IF outcome = "ctorThrows" THEN [s EXCEPT !.error = ErrStart]
    ELSE LET r == Len(s.rec) + 1
             s1 == [s EXCEPT
                      !.rec = Append(@, "inactive"),
                      !.mediaRecorderRef = r,
                      !.chunksRef = 0]
             s2 == startEyeContactDetection(s1, r)
         IN  IF outcome = "startThrows" THEN [s2 EXCEPT !.error = ErrStart]
             ELSE [s2 EXCEPT !.rec[r] = "recording",
                             !.isRecording = TRUE,
                             !.elapsed = 0,
                             !.timerRef = r,
                             !.liveTimers = @ \cup {r}]

stopRecording(s) ==
    LET s1 == IF s.mediaRecorderRef # 0
              THEN [s EXCEPT !.rec = StopRecorders(@, {s.mediaRecorderRef})]
              ELSE s
        s2 == stopEyeContactDetection([s1 EXCEPT !.isRecording = FALSE])
    IN  IF s2.timerRef # 0
        THEN [s2 EXCEPT !.liveTimers = @ \ {s2.timerRef}, !.timerRef = 0]
        ELSE s2

\* recorder.onerror, lines 676-683
recorderOnError(s) ==
    LET t == [s EXCEPT !.error = ErrRecording, !.isRecording = FALSE]
        u == SetState(s, t)
    IN  IF u.timerRef # 0 THEN [u EXCEPT !.liveTimers = @ \ {u.timerRef}] ELSE u

\* a variant of ondataavailable without the test of the size
recorderOnDataAnySize(s, r, size) == [s EXCEPT !.chunksRef = @ + 1]

\* recorder.ondataavailable, lines 668-672
recorderOnData(s, r, size) ==
    IF size > 0 THEN [s EXCEPT !.chunksRef = @ + 1] ELSE s

----------------------------------------------------------------------------
(* Navigation and submission, lines 724-782. *)

\* App.handleRecorderClose (lines 992-994): the component unmounts and its
\* effect cleanup runs; the React state of the instance is gone with it (it is
\* left at its initial values), the refs live on in the closures
Unmount(s) ==
    [effectCleanup(s) EXCEPT !.mounted = FALSE, !.videoSrc = 0,
                             !.currentView = "recorder", !.isRecording = FALSE,
                             !.elapsed = 0, !.error = NoError,
                             !.isInitializing = TRUE,
                             !.recordingBlob = NullBlob, !.analysisData = NullData]

handleBack(s) ==
    Unmount(IF s.isRecording THEN stopRecording(s) ELSE s)

\* a variant of handleDashboardBack that keeps the analysis data
handleDashboardBackKeepsData(s) ==
    Render(s, [s EXCEPT !.currentView = "recorder",
                        !.recordingBlob = NullBlob])

handleDashboardBack(s) ==
    Render(s, [s EXCEPT !.currentView = "recorder",
                        !.recordingBlob = NullBlob,
                        !.analysisData = NullData])

\* a variant of handleReRecord that changes the view only
handleReRecordViewOnly(s) == Render(s, [s EXCEPT !.currentView = "recorder"])

handleReRecord(s) ==
    Render(s, [s EXCEPT !.currentView = "recorder",
                        !.recordingBlob = NullBlob,
                        !.elapsed = 0])

\* handleAnalyzeSpeech up to its await, lines 754-758
handleAnalyzeSpeech(s) ==
    Render(s, [s EXCEPT !.currentView = "loading",
                        !.reqs = @ (+) SetToBag({s.recordingBlob})])

\* prev?.eyeContactScore
localScoreOf(prev) ==
    IF prev # NullData /\ "eyeContactScore" \in DOMAIN prev
    THEN prev["eyeContactScore"] ELSE Undefined

\* a variant of the merge in which the fields of the payload win
mergeRemoteWins(result, prev) ==
    [k \in DOMAIN result \cup {"eyeContactScore"} |->
        IF k \in DOMAIN result THEN result[k] ELSE localScoreOf(prev)]

\* the merge of line 762
merge(result, prev) == Spread(result, "eyeContactScore", localScoreOf(prev))

\* handleAnalyzeSpeech after its await resolved with result, lines 759-765
analyzeResolved(s, blob, result) ==
    LET s1 == [s EXCEPT !.reqs = @ (-) SetToBag({blob})]
        t == [s1 EXCEPT !.analysisData = merge(result, @),
                        !.currentView = "dashboard"]
    IN  IF s.mounted THEN Render(s1, t) ELSE s1

\* a variant of the rejection that clears the analysis data as well
analyzeRejectedClears(s, blob) ==
    LET s1 == [s EXCEPT !.reqs = @ (-) SetToBag({blob})]
        t == [s1 EXCEPT !.error = ErrAnalysis, !.currentView = "review",
                        !.analysisData = NullData]
    IN  IF s.mounted THEN Render(s1, t) ELSE s1

\* handleAnalyzeSpeech after its await rejected, lines 766-771
analyzeRejected(s, blob) ==
    LET s1 == [s EXCEPT !.reqs = @ (-) SetToBag({blob})]
        t == [s1 EXCEPT !.error = ErrAnalysis, !.currentView = "review"]
    IN  IF s.mounted THEN Render(s1, t) ELSE s1

----------------------------------------------------------------------------

Init ==
    /\ supported \in BOOLEAN
    /\ tmImage \in BOOLEAN
    /\ mounted = TRUE
    /\ currentView = "recorder"
    /\ isRecording = FALSE
    /\ elapsed = 0
    /\ recordingBlob = NullBlob
    /\ analysisData = NullData
    /\ streamRef = 0
    /\ videoSrc = 0
    /\ mediaRecorderRef = 0
    /\ timerRef = 0
    /\ chunksRef = 0
    /\ modelRef = FALSE
    /\ eyeContactFramesRef = 0
    /\ totalFramesRef = 0
    /\ predictionIntervalRef = 0
    /\ liveStreams = {}
    /\ endedStreams = {}
    /\ nAcq = IF supported THEN 1 ELSE 0
    /\ rec = <<>>
    /\ liveTimers = {}
    /\ liveSamplers = {}
    /\ pendingPred = 0
    /\ reqs = EmptyBag
    \* the first run of the effect, on mount
    /\ error = IF supported THEN NoError ELSE ErrUnsupported
    /\ isInitializing = supported
    /\ acq = IF supported
             THEN Put(<<>>, 1, [isMounted |-> TRUE, gum |-> "pending",
                                load |-> IF tmImage THEN "pending" ELSE "done"])
             ELSE <<>>
    /\ effectView = "recorder"
    /\ effectAcq = IF supported THEN 1 ELSE 0

----------------------------------------------------------------------------
(* The steps. *)

GumResolve(i) ==
    /\ acq[i].gum = "pending"
    /\ Apply(getUserMediaResolved(State, i))

\* permission denied, device unavailable
GumReject(i) ==
    /\ acq[i].gum = "pending"
    /\ Apply(getUserMediaRejected(State, i))

ModelLoad(i, ok) ==
    /\ acq[i].load = "pending"
    /\ Apply(modelLoadSettled(State, i, ok))

\* the Record/Stop button, lines 939-950
ButtonEnabled == mounted /\ currentView = "recorder" /\ ~isInitializing /\ error = NoError

StartRecording(outcome) ==
    /\ ButtonEnabled
    /\ ~isRecording
    /\ Len(rec) < MaxRecorders
    /\ Apply(startRecording(State, outcome))

StopRecording ==
    /\ ButtonEnabled
    /\ isRecording
    /\ Apply(stopRecording(State))

\* the duration interval fires, lines 691-693
TimerTick(id) ==
    /\ id \in liveTimers
    /\ elapsed < MaxElapsed
    /\ Apply(SetState(State, [State EXCEPT !.elapsed = @ + 1]))

\* the prediction interval fires and awaits predict(videoRef.current), lines
\* 514-516. Without a video element (the recorder view is not rendered)
\* predict(null) rejects and the callback changes nothing: those ticks are
\* left out.
SamplerTick(id) ==
    /\ id \in liveSamplers
    /\ mounted
    /\ currentView = "recorder"
    /\ totalFramesRef + pendingPred < MaxFrames
    /\ Apply([State EXCEPT !.pendingPred = @ + 1])

PredictionDone(outcome) ==
    /\ pendingPred > 0
    /\ Apply(predictionDone(State, outcome))

\* The tasks that fire the recorders' events are queued on one task source
\* and run in the order they were queued. A recorder is created only when
\* the one before it has been stopped or has failed, so its last events
\* fire after those of every earlier recorder.
EarlierDone(r) == \A q \in 1..(r - 1) : rec[q] = "inactive"

\* the task recorder.stop() queued runs: the recorder fires dataavailable
\* with the data gathered (size 0 when there is none), then stop
RecorderStopped(r, size) ==
    /\ rec[r] = "stopping"
    /\ EarlierDone(r)
    /\ Apply(handleRecordingComplete(
                recorderOnData([State EXCEPT !.rec[r] = "inactive"], r, size), r))

\* the recorder fails while recording: it goes inactive and, in one task,
\* fires error, then dataavailable, then stop
RecorderError(r, size) ==
    /\ rec[r] = "recording"
    /\ EarlierDone(r)
    /\ Apply(handleRecordingComplete(
                recorderOnData(
                  recorderOnError([State EXCEPT !.rec[r] = "inactive"]), r, size), r))

\* the Back button of the recorder and review views
HandleBack ==
    /\ mounted
    /\ currentView \in {"recorder", "review"}
    /\ Apply(handleBack(State))

HandleReRecord ==
    /\ mounted
    /\ currentView = "review"
    /\ Apply(handleReRecord(State))

HandleAnalyzeSpeech ==
    /\ mounted
    /\ currentView = "review"
    /\ Apply(handleAnalyzeSpeech(State))

AnalyzeResolved(blob, result) ==
    /\ blob \in BagToSet(reqs)
    /\ Apply(analyzeResolved(State, blob, result))

AnalyzeRejected(blob) ==
    /\ blob \in BagToSet(reqs)
    /\ Apply(analyzeRejected(State, blob))

\* the Back button of the Dashboard, which renders nothing without data
\* (lines 84-87, 140-145)
HandleDashboardBack ==
    /\ mounted
    /\ currentView = "dashboard"
    /\ analysisData # NullData
    /\ Apply(handleDashboardBack(State))

Next ==
    \/ \E i \in DOMAIN acq : GumResolve(i)
    \/ \E i \in DOMAIN acq : GumReject(i)
    \/ \E i \in DOMAIN acq, ok \in BOOLEAN : ModelLoad(i, ok)
    \/ \E outcome \in StartOutcomes : StartRecording(outcome)
    \/ StopRecording
    \/ \E id \in liveTimers : TimerTick(id)
    \/ \E id \in liveSamplers : SamplerTick(id)
    \/ \E outcome \in PredictOutcomes : PredictionDone(outcome)
    \/ \E r \in DOMAIN rec, size \in {0, 1} : RecorderStopped(r, size)
    \/ \E r \in DOMAIN rec, size \in {0, 1} : RecorderError(r, size)
    \/ HandleBack
    \/ HandleReRecord
    \/ HandleAnalyzeSpeech
    \/ \E blob \in BagToSet(reqs), result \in Payloads : AnalyzeResolved(blob, result)
    \/ \E blob \in BagToSet(reqs) : AnalyzeRejected(blob)
    \/ HandleDashboardBack

Spec == Init /\ [][Next]_vars

----------------------------------------------------------------------------
(* The completion of one recording, for every pair of counters. *)

\* the component after one recording was started and stopped, with the
\* model loaded: the stop event of recorder 1 is due, and the sampler has
\* counted totalFramesRef predictions, eyeContactFramesRef of them positive
ScoreInit ==
    /\ supported = TRUE
    /\ tmImage = TRUE
    /\ mounted = TRUE
    /\ currentView = "recorder"
    /\ isRecording = FALSE
    /\ elapsed = 0
    /\ error = NoError
    /\ isInitializing = FALSE
    /\ recordingBlob = NullBlob
    /\ analysisData = NullData
    /\ streamRef = 1
    /\ videoSrc = 1
    /\ mediaRecorderRef = 1
    /\ timerRef = 0
    /\ chunksRef = 0
    /\ modelRef = TRUE
    /\ totalFramesRef \in 0..MaxScoreFrames
    /\ eyeContactFramesRef \in 0..totalFramesRef
    /\ predictionIntervalRef = 0
    /\ effectView = "recorder"
    /\ effectAcq = 1
    /\ liveStreams = {1}
    /\ endedStreams = {}
    /\ nAcq = 1
    /\ acq = <<>>
    /\ rec = <<"stopping">>
    /\ liveTimers = {}
    /\ liveSamplers = {}
    /\ pendingPred = 0
    /\ reqs = EmptyBag

ScoreNext == \E size \in {0, 1} : RecorderStopped(1, size)

ScoreSpec == ScoreInit /\ [][ScoreNext]_vars

----------------------------------------------------------------------------
(* cleanup as an operation of its own, on every state of the refs. *)

\* the states of one recorder with its duration timer (timerRef, the timer
\* live) and its sampler running: none created; recording; stopped by the
\* user, its last events due; inactive after a stop; inactive after an error
\* (onerror clears the timer, keeps timerRef and leaves the sampler)
RecorderCases ==
    { [rec |-> <<>>, timerRef |-> 0, timerLive |-> FALSE, sampling |-> FALSE],
      [rec |-> <<"recording">>, timerRef |-> 1, timerLive |-> TRUE, sampling |-> TRUE],
      [rec |-> <<"stopping">>, timerRef |-> 0, timerLive |-> FALSE, sampling |-> FALSE],
      [rec |-> <<"inactive">>, timerRef |-> 0, timerLive |-> FALSE, sampling |-> FALSE],
      [rec |-> <<"inactive">>, timerRef |-> 1, timerLive |-> FALSE, sampling |-> TRUE] }

\* the component in the recorder view, no promise in flight: the streams
\* acquired so far are live or stopped, streamRef is null or one of the live
\* ones, and the recorder is in one of RecorderCases
ReleaseInit ==
    /\ supported = TRUE
    /\ tmImage \in BOOLEAN
    /\ modelRef \in BOOLEAN
    /\ modelRef => tmImage
    /\ mounted = TRUE
    /\ currentView = "recorder"
    /\ elapsed = 0
    /\ error = NoError
    /\ isInitializing = FALSE
    /\ recordingBlob = NullBlob
    /\ analysisData = NullData
    /\ nAcq = MaxRecorders
    /\ liveStreams \in SUBSET (1..nAcq)
    /\ endedStreams = (1..nAcq) \ liveStreams
    /\ streamRef \in {0} \cup liveStreams
    /\ videoSrc = streamRef
    /\ \E c \in RecorderCases :
          /\ rec = c.rec
          /\ mediaRecorderRef = Len(c.rec)
          /\ isRecording = (c.rec = <<"recording">>)
          /\ timerRef = c.timerRef
          /\ liveTimers = IF c.timerLive THEN {1} ELSE {}
          /\ predictionIntervalRef = IF c.sampling /\ modelRef THEN 1 ELSE 0
          /\ liveSamplers = IF c.sampling /\ modelRef THEN {1} ELSE {}
    /\ chunksRef = 0
    /\ eyeContactFramesRef = 0
    /\ totalFramesRef = 0
    /\ effectView = "recorder"
    /\ effectAcq = nAcq
    /\ acq = <<>>
    /\ pendingPred = 0
    /\ reqs = EmptyBag

\* cleanup() is called
Release == Apply(cleanup(State))

ReleaseNext == Release

ReleaseSpec == ReleaseInit /\ [][ReleaseNext]_vars

----------------------------------------------------------------------------
(* The properties. *)

\* C1: at every instant at most one acquired capture stream has tracks
\* that are not stopped; re-entering the recorder view never leaves a
\* second stream live beside one acquired before.
C1_AtMostOneLiveStream == Cardinality(liveStreams) <= 1

\* C2: once the component is torn down, the stream bound to streamRef has
\* all its tracks stopped, no duration timer and no prediction interval is
\* left to fire, and no recorder is still recording.
C2_TeardownReleasesAll ==
    ~mounted =>
        /\ streamRef \notin liveStreams
        /\ liveTimers = {}
        /\ liveSamplers = {}
        /\ \A r \in DOMAIN rec : rec[r] # "recording"

\* the component was torn down, or the view left the recorder view, after
\* initializeMedia call i began: the view is the recorder view for the
\* latest call only
Abandoned(i) == ~mounted \/ currentView # "recorder" \/ i # nAcq

\* in this step the await of call i resolves with its stream
ResumesWithStream(i) ==
    /\ i \in DOMAIN acq
    /\ i \notin DOMAIN acq'
    /\ i \in liveStreams' \cup endedStreams'

LegalEdges ==
    { <<"recorder", "review">>, <<"review", "recorder">>, <<"review", "loading">>,
      <<"loading", "dashboard">>, <<"loading", "review">>, <<"dashboard", "recorder">> }

\* C4: the first view is the recorder view and, while the component is
\* mounted, the view changes along the edges of the transition table only.
C4_OnlyLegalEdges ==
    /\ currentView = "recorder"
    /\ [][(mounted' /\ currentView' # currentView) =>
              <<currentView, currentView'>> \in LegalEdges]_vars

\* in this step the last events of recorder r fire
LastEvents(r) == r \in DOMAIN rec /\ rec[r] # "inactive" /\ rec'[r] = "inactive"

\* in this step the completion of recorder r happens: its artifact is
\* stored and the view is set to the review view
Completes(r) ==
    /\ recordingBlob' # recordingBlob
    /\ recordingBlob'.by = r
    /\ currentView' = "review"

\* C5 as stated: the stop event of every recorder the user stopped performs
\* the completion. (The stop event is the only step that can: when it does
\* not, the completion of that cycle never happens.)
C5_EveryStopCompletes ==
    [][\A r \in DOMAIN rec :
          (mounted /\ rec[r] = "stopping" /\ LastEvents(r)) => Completes(r)]_vars

\* C5, amended: the completion of a recorder the user stopped happens in the
\* step of its stop event, when the chunk list is not empty then, and in no
\* other step; a recorder fires its last events once, so the completion
\* never happens twice for one cycle.
C5_CompletesAtMostOnce ==
    [][/\ \A r \in DOMAIN rec :
            /\ (mounted /\ rec[r] = "stopping" /\ LastEvents(r)) =>
                   (Completes(r) <=> chunksRef' > 0)
            /\ rec[r] = "inactive" => rec'[r] = "inactive"
       /\ (recordingBlob' # recordingBlob /\ recordingBlob' # NullBlob) =>
            (LastEvents(recordingBlob'.by) /\ Completes(recordingBlob'.by))]_vars

\* a recorder the user stopped has completed
C5_Witness ==
    /\ currentView = "review"
    /\ error = NoError
    /\ recordingBlob # NullBlob
    /\ rec[recordingBlob.by] = "inactive"

\* C6: the step in which a recorder fails while recording leaves the run
\* stopped (isRecording false, its duration timer and its prediction
\* interval cleared) with an error set, stores no artifact and does not
\* change the view, although the stop event fires after the error event.
C6_FailedRunProducesNothing ==
    [][\A r \in DOMAIN rec :
          (mounted /\ rec[r] = "recording" /\ LastEvents(r)) =>
              /\ ~isRecording'
              /\ r \notin liveTimers'
              /\ r \notin liveSamplers'
              /\ error' # NoError
              /\ recordingBlob' = recordingBlob
              /\ currentView' = currentView]_vars

\* in this step the user re-records from the review view
ReRecords == mounted /\ mounted' /\ currentView = "review" /\ currentView' = "recorder"

Settles(blob) == BagIn(blob, reqs) /\ reqs' = reqs (-) SetToBag({blob})

\* ... by rejecting, and by resolving, while the component is mounted
Rejected(blob) == mounted /\ Settles(blob) /\ currentView' = "review"
Resolved(blob) == mounted /\ Settles(blob) /\ currentView' = "dashboard"

\* C8: the step in which an analysis request fails takes the view from
\* the loading view to the review view, sets an error, and leaves as the
\* artifact the one that was submitted, which is not null.
C8_FailureKeepsArtifact ==
    [][\A blob \in BagToSet(reqs) :
          Rejected(blob) =>
              /\ currentView = "loading"
              /\ error' # NoError
              /\ blob # NullBlob
              /\ recordingBlob' = blob]_vars

\* C9 as stated: after the step in which an analysis request fails the
\* analysis data is null.
C9_FailureLeavesNull ==
    [][\A blob \in BagToSet(reqs) : Rejected(blob) => analysisData' = NullData]_vars

\* C9, amended: the step in which an analysis request fails leaves the
\* analysis data as it was (after a completed recording that is the object
\* with the local eyeContactScore, not null).
C9_FailureLeavesDataUnchanged ==
    [][\A blob \in BagToSet(reqs) : Rejected(blob) => analysisData' = analysisData]_vars

\* a request has failed and the analysis data is the local score alone
C9_Witness ==
    /\ currentView = "review"
    /\ error = ErrAnalysis
    /\ DOMAIN analysisData = {"eyeContactScore"}

\* C10: the eyeContactScore of the merged result is the local one (that of
\* the analysis data before the merge), for the payload the request
\* resolved with and for every payload, with or without that field.
C10_MergeKeepsLocalScore ==
    [][\A blob \in BagToSet(reqs) :
          Resolved(blob) =>
              /\ analysisData'["eyeContactScore"] = localScoreOf(analysisData)
              /\ \A R \in Payloads :
                    /\ merge(R, analysisData)["eyeContactScore"] = localScoreOf(analysisData)
                    /\ \A k \in DOMAIN R \ {"eyeContactScore"} :
                          merge(R, analysisData)[k] = R[k]]_vars

\* the dashboard shows the result of a payload that had a field named
\* eyeContactScore, with the local score in its place
C10_Witness ==
    /\ currentView = "dashboard"
    /\ DOMAIN analysisData = {"confidenceScore", "eyeContactScore"}
    /\ analysisData["confidenceScore"] = 55
    /\ analysisData["eyeContactScore"] \in {0, 100}

\* C11: when a request resolves, the eyeContactScore of the stored result
\* is the score that was stored at the completion of the recording whose
\* artifact the request was given.
C11_FinalScoreIsOfSubmittedRecording ==
    [][\A blob \in BagToSet(reqs) :
          Resolved(blob) => analysisData'["eyeContactScore"] = blob.score]_vars

\* C12: at most one analyzeVideo call is in flight at any instant.
C12_AtMostOneRequest == BagCardinality(reqs) <= 1

\* a recording is active: the component says so, or a recorder is recording
RecordingActive == isRecording \/ \E r \in DOMAIN rec : rec[r] = "recording"

\* C13: a recording is never active while an analyzeVideo call is in flight.
C13_RecordingOrRequest == ~(RecordingActive /\ reqs # EmptyBag)

\* C14: while the component is mounted, the view is the loading view exactly
\* when an analyzeVideo call is in flight.
C14_LoadingIffRequest == mounted => (currentView = "loading" <=> reqs # EmptyBag)

ExactRound(frames, total) ==
    CHOOSE n \in 0..100 :
        200 * frames - total < 2 * total * n /\ 2 * total * n <= 200 * frames + total

\* C16: the score stored at the completion of a recording is 0 when
\* totalFramesRef is 0 and round(100 * eyeContactFramesRef / totalFramesRef)
\* of the counters at that moment otherwise, an integer in 0..100.
C16_StoredScoreIsRounded ==
    [][\A r \in DOMAIN rec :
          Completes(r) =>
              /\ analysisData'["eyeContactScore"] \in 0..100
              /\ analysisData'["eyeContactScore"] =
                    IF totalFramesRef = 0 THEN 0
                    ELSE ExactRound(eyeContactFramesRef, totalFramesRef)]_vars

\* in this step getUserMedia of call i rejects
GumFails(i) ==
    /\ i \in DOMAIN acq
    /\ acq[i].gum = "pending"
    /\ i \notin liveStreams' \cup endedStreams'
    /\ i \in DOMAIN acq' => acq'[i].gum = "over"

\* what the claim asks of the component after a failed acquisition
FailureSurfaced ==
    /\ currentView = "recorder"
    /\ error # NoError
    /\ streamRef = 0
    /\ videoSrc = 0
    /\ ~ButtonEnabled

\* C17: when the acquisition of the mounted recorder view fails (the browser
\* has no getUserMedia, or getUserMedia rejects), the view stays the
\* recorder view, an error is set, no stream is bound and the Record button
\* is disabled.
C17_AcquisitionFailureSurfaced ==
    /\ (~supported => FailureSurfaced)
    /\ [][\A i \in DOMAIN acq :
            (~Abandoned(i) /\ GumFails(i)) => FailureSurfaced']_vars

\* C18: while the model is not loaded, the acquisition of the recorder view
\* still completes when its stream arrives (the stream is bound,
\* isInitializing is false, the step sets no error), no prediction is ever
\* counted and no sampler runs, and the score stored at the completion of a
\* recording is 0.
C18_ModelFailureDoesNotBlock ==
    [][/\ \A i \in DOMAIN acq :
            (~Abandoned(i) /\ ResumesWithStream(i) /\ ~modelRef') =>
                (streamRef' = i /\ ~isInitializing' /\ error' = error)
       /\ ~modelRef' => (totalFramesRef' = 0 /\ liveSamplers' = {})
       /\ \A r \in DOMAIN rec :
            (Completes(r) /\ ~modelRef) => analysisData'["eyeContactScore"] = 0]_vars

\* the model failed to load, and a recording was started, stopped and has
\* reached the review view with the score 0
C18_Witness ==
    /\ tmImage
    /\ ~modelRef
    /\ acq = <<>>
    /\ currentView = "review"
    /\ error = NoError
    /\ recordingBlob # NullBlob
    /\ analysisData["eyeContactScore"] = 0

\* in this step a recording starts
Starts == Len(rec') > Len(rec) /\ rec'[Len(rec')] = "recording"

\* C19: elapsed is 0 after the step that starts a recording; it changes
\* only by a step to 0 that starts a recording, re-records or unmounts, or
\* by a tick that adds 1 while a recording is active; and it does not
\* change while the view stays the review view, so that the review view
\* shows the ticks counted between the start and the stop.
C19_ElapsedCountsTicks ==
    [][/\ Starts => elapsed' = 0
       /\ elapsed' # elapsed =>
            IF elapsed' = 0 THEN Starts \/ ReRecords \/ ~mounted'
            ELSE elapsed' = elapsed + 1 /\ RecordingActive
       /\ (currentView = "review" /\ currentView' = "review") => elapsed' = elapsed]_vars

\* in this step the user goes back from the dashboard
GoesBackFromDashboard == mounted /\ currentView = "dashboard" /\ currentView' = "recorder"

\* C20: the step that goes back from the dashboard to the recorder view
\* sets the artifact and the analysis data to null and starts a new
\* initializeMedia call, which awaits getUserMedia.
C20_DashboardBackResets ==
    [][GoesBackFromDashboard =>
          /\ mounted'
          /\ recordingBlob' = NullBlob
          /\ analysisData' = NullData
          /\ nAcq' = nAcq + 1
          /\ nAcq' \in DOMAIN acq'
          /\ acq'[nAcq'].isMounted
          /\ acq'[nAcq'].gum = "pending"
          /\ isInitializing']_vars

\* the recorder view after the user went back from the dashboard, the new
\* acquisition in flight
C20_Witness ==
    /\ mounted
    /\ currentView = "recorder"
    /\ Len(rec) >= 1
    /\ recordingBlob = NullBlob
    /\ analysisData = NullData
    /\ nAcq >= 2
    /\ nAcq \in DOMAIN acq

\* a user action other than the Back button, which closes the session
UserActionShortOfClosing ==
    \/ \E outcome \in StartOutcomes : StartRecording(outcome)
    \/ StopRecording
    \/ HandleReRecord
    \/ HandleAnalyzeSpeech
    \/ HandleDashboardBack

\* an error is shown: the recorder view is the one that renders it
ErrorSurfaced == mounted /\ currentView = "recorder" /\ error # NoError

\* C21: while an error is shown, no recording starts and no step but a user
\* action begins a new acquisition or creates a recorder; and in every state
\* in which an error is shown a user action other than Back is enabled (the
\* one that resolves the error and lets a recording be started again).
C21_ErrorBlocksUntilUserAction ==
    /\ [](ErrorSurfaced => ENABLED UserActionShortOfClosing)
    /\ [][/\ ErrorSurfaced => ~Starts
          /\ (nAcq' > nAcq) => (ReRecords \/ GoesBackFromDashboard)
          /\ Len(rec') > Len(rec) => ButtonEnabled]_vars

\* in this step an analyzeVideo call is made with blob
Issues(blob) == reqs' = reqs (+) SetToBag({blob})

\* in this step the user submits from the review view
Submits == mounted /\ currentView = "review" /\ currentView' = "loading"

\* C22: an analyzeVideo call is only ever made by the step of a user submit
\* from the review view, with the artifact of that moment (no step retries);
\* the step in which a request fails leaves the review view, where the
\* submit is enabled, with the artifact of the failed request; and the
\* artifact does not change while the view stays the review view, so that
\* the next request carries the artifact of the failed one unless the user
\* re-recorded.
C22_RetryOnlyByUserSubmit ==
    [][/\ reqs' # reqs =>
            \/ \E blob \in BagToSet(reqs) : Settles(blob)
            \/ Submits /\ Issues(recordingBlob)
       /\ \A blob \in BagToSet(reqs) :
            Rejected(blob) =>
                /\ reqs' = reqs (-) SetToBag({blob})
                /\ mounted' /\ currentView' = "review"
                /\ recordingBlob' = blob
       /\ (currentView = "review" /\ currentView' = "review") =>
            recordingBlob' = recordingBlob]_vars

\* nothing is left for cleanup to release: no stream is bound, no timer is
\* held and the recorder of mediaRecorderRef, if any, is not recording
Released ==
    /\ streamRef = 0
    /\ timerRef = 0
    /\ mediaRecorderRef # 0 => rec[mediaRecorderRef] # "recording"

\* C23: cleanup run twice in a row gives the state cleanup run once gives,
\* and cleanup run in a state where nothing is left to release (streamRef
\* null, the timer and the recorder already released) changes nothing: each
\* of its three operations is behind a test of what it operates on, so no
\* call is made on a released object.
C23_ReleaseIdempotent ==
    /\ cleanup(cleanup(State)) = cleanup(State)
    /\ Released => cleanup(State) = State
    /\ streamRef = 0 =>
          /\ cleanup(State).liveStreams = liveStreams
          /\ cleanup(State).endedStreams = endedStreams

\* cleanup has run on a recording in progress: the stream that was bound is
\* stopped, the timer is cleared and the recorder is stopped (its sampler is
\* not: cleanup leaves it)
C23_Witness ==
    /\ Released
    /\ rec = <<"stopping">>
    /\ liveTimers = {}
    /\ liveSamplers = {1}
    /\ endedStreams # {}
    /\ liveStreams # 1..nAcq

\* C24: once stopRecording has returned (no recording is active and the
\* prediction interval is cleared), a step that does not start a recording
\* leaves eyeContactFramesRef and totalFramesRef as they are, a prediction
\* that was awaited at the moment of the stop included: the counters read at
\* the completion are those of the moment of the stop.
C24_CountersFrozenAfterStop ==
    [][(~RecordingActive /\ predictionIntervalRef = 0 /\ ~Starts) =>
          /\ totalFramesRef' = totalFramesRef
          /\ eyeContactFramesRef' = eyeContactFramesRef]_vars

\* C25: while the component is mounted and the view is not the recorder
\* view, no duration timer and no prediction interval is left to fire.
C25_NoTimersOutsideRecorder ==
    (mounted /\ currentView # "recorder") => (liveTimers = {} /\ liveSamplers = {})

\* C26: for a prediction that is awaited, whatever its outcome: a prediction
\* with an index-0 probability >= 0.5 adds 1 to both counters, one with a
\* lower probability adds 1 to totalFramesRef only, and a classification
\* that fails (predict() rejects or returns no prediction) leaves both
\* counters as they are; no outcome sets an error or clears the prediction
\* interval.
C26_TickCountsOnePrediction ==
    pendingPred > 0 =>
        \A outcome \in PredictOutcomes :
            LET t == predictionDone(State, outcome) IN
            /\ t.pendingPred = pendingPred - 1
            /\ t.totalFramesRef =
                  IF outcome \in {"positive", "negative"}
                  THEN totalFramesRef + 1 ELSE totalFramesRef
            /\ t.eyeContactFramesRef =
                  IF outcome = "positive"
                  THEN eyeContactFramesRef + 1 ELSE eyeContactFramesRef
            /\ t.error = error
            /\ t.liveSamplers = liveSamplers
            /\ t.predictionIntervalRef = predictionIntervalRef

\* a prediction with a probability below 0.5 has been counted, the
\* recording and its sampler still running and no error set
C26_Witness ==
    /\ totalFramesRef = 1
    /\ eyeContactFramesRef = 0
    /\ pendingPred = 0
    /\ isRecording
    /\ predictionIntervalRef # 0
    /\ predictionIntervalRef \in liveSamplers
    /\ error = NoError

\* C27: the step that starts a recording leaves both counters 0, no
\* prediction of an earlier tick awaited and no prediction interval running
\* but the one it created: whatever is counted until the completion of the
\* recording comes from a tick of its own sampler.
C27_AccumulatorFreshAtStart ==
    [][Starts =>
          /\ totalFramesRef' = 0
          /\ eyeContactFramesRef' = 0
          /\ pendingPred' = 0
          /\ liveSamplers' \subseteq {Len(rec')}]_vars

\* the state after the last events of recorder r, its final data empty:
\* dataavailable with size 0, then stop (after error, for a recorder that
\* fails while recording)
AfterEmptyLastEvents(r) ==
    LET s == [State EXCEPT !.rec[r] = "inactive"] IN
    handleRecordingComplete(
        recorderOnData(IF rec[r] = "recording" THEN recorderOnError(s) ELSE s, r, 0), r)

\* C28: an artifact that is not null was built from at least one chunk, and
\* only data of a size above 0 is ever pushed as a chunk; and the last events
\* of a recorder that come with no chunk (the chunk list is empty and the
\* final data is) leave the artifact, the analysis data and the view as they
\* are.
C28_NoZeroChunkArtifact ==
    /\ recordingBlob # NullBlob => recordingBlob.chunks >= 1
    /\ \A r \in DOMAIN rec :
          (rec[r] # "inactive" /\ chunksRef = 0) =>
              /\ AfterEmptyLastEvents(r).chunksRef = 0
              /\ AfterEmptyLastEvents(r).recordingBlob = recordingBlob
              /\ AfterEmptyLastEvents(r).analysisData = analysisData
              /\ AfterEmptyLastEvents(r).currentView = currentView

\* a recorder the user stopped has fired its last events with no data: the
\* view is still the recorder view and there is no artifact and no score
C28_Witness ==
    /\ mounted
    /\ rec = <<"inactive">>
    /\ error = NoError
    /\ chunksRef = 0
    /\ currentView = "recorder"
    /\ recordingBlob = NullBlob
    /\ analysisData = NullData

\* in this step startRecording fails: it sets one of its two errors
FailsToStart == error = NoError /\ error' \in {ErrNoStream, ErrStart}

\* C29: the step of a startRecording that fails (no stream bound, or the
\* constructor or start() throws) sets an error and leaves nothing of that
\* recording running: isRecording is false, no recorder is recording that was
\* not before, and no duration timer and no prediction interval is
\* registered that was not before.
C29_FailedStartLeavesNothingRunning ==
    [][FailsToStart =>
          /\ ~isRecording'
          /\ \A r \in DOMAIN rec' :
                rec'[r] = "recording" => (r \in DOMAIN rec /\ rec[r] = "recording")
          /\ liveTimers' \subseteq liveTimers
          /\ liveSamplers' \subseteq liveSamplers]_vars

\* C30: while the component is mounted the artifact is null exactly when
\* the view is the recorder view, and a step that leaves the view outside
\* the recorder view (review, loading, dashboard) leaves the artifact the
\* same object.
C30_ArtifactNullIffRecorderView ==
    /\ [](mounted => (recordingBlob = NullBlob <=> currentView = "recorder"))
    /\ [][(mounted' /\ currentView # "recorder" /\ currentView' # "recorder") =>
              recordingBlob' = recordingBlob]_vars

\* the fields a remote payload brings: every field of a payload but the one
\* named eyeContactScore, which the merge replaces by the local score
RemoteFields == UNION { DOMAIN R : R \in Payloads } \ {"eyeContactScore"}

\* the analysis data holds no remote field: it is null or the local score
\* alone
LocalOnly ==
    analysisData = NullData \/ DOMAIN analysisData \cap RemoteFields = {}

\* C31: while the component is mounted, the view becomes the dashboard only
\* in a step in which an analyzeVideo call settles; in the dashboard the
\* analysis data is not null and holds a field of the remote payload; and in
\* the recorder, review and loading views it holds no remote field.
C31_DashboardIffRemoteResult ==
    /\ [](mounted =>
            IF currentView = "dashboard"
            THEN analysisData # NullData /\ ~LocalOnly
            ELSE LocalOnly)
    /\ [][(mounted' /\ currentView' = "dashboard" /\ currentView # "dashboard") =>
              \E blob \in BagToSet(reqs) : Settles(blob)]_vars

\* C32: at most one prediction interval and at most one duration timer are
\* registered at any instant, and none is while no recording is active.
C32_AtMostOneSamplerAndTimer ==
    /\ Cardinality(liveSamplers) <= 1
    /\ Cardinality(liveTimers) <= 1
    /\ ~RecordingActive => (liveSamplers = {} /\ liveTimers = {})

====
